---- MODULE Spec2Model ----
(***************************************************************************)
(* Model of src/utils/metrics.py: the speech-enhancement metrics           *)
(* (calculate_snr, calculate_si_sdr, calculate_pesq, calculate_stoi) and   *)
(* the batch evaluator evaluate_batch, with the two module-level flags     *)
(* _PESQ_AVAILABLE and _PESQ_WARNING_SHOWN.                                 *)
(*                                                                         *)
(* Numbers.  Samples are integers.  The constant 1e-8 of the code is kept  *)
(* symbolic as eps: a quantity of the code is a polynomial in eps with     *)
(* integer coefficients, written as the sequence <<c0, c1, c2, ...>> for   *)
(* c0 + c1*eps + c2*eps^2 + ... .  A value 10*log10(num/den) is the record *)
(* [kind, num, den]; kind is "neg_inf" when the ratio is 0 (numpy's        *)
(* log10(0) = -inf, the RuntimeWarning being silenced by line 11) and      *)
(* "finite" when it is positive.  Arithmetic is exact (no float rounding). *)
(*                                                                         *)
(* Arrays.  A numpy array is [ndim, shape, flat] with flat in row-major    *)
(* order, so that indexing, slicing, len(), np.newaxis and broadcasting    *)
(* are modelled by what they do to the shape.                              *)
(***************************************************************************)
EXTENDS Integers, Sequences, FiniteSets, TLC

\* Bounds of the model.
MaxLen == 3        \* longest signal (samples per example)
MaxBatch == 2      \* largest batch dimension

Samples == {-1, 0, 1}
SampleRates == {8000, 16000}
Modes == {"wb", "nb"}
PesqScores == {1, 4}
StoiScores == {1}

Min(a, b) == IF a <= b THEN a ELSE b

RECURSIVE SumSeq(_)
SumSeq(s) == IF s = <<>> THEN 0 ELSE Head(s) + SumSeq(Tail(s))

RECURSIVE SumSq(_)
SumSq(s) == IF s = <<>> THEN 0 ELSE Head(s) * Head(s) + SumSq(Tail(s))

RECURSIVE Prod(_)
Prod(s) == IF s = <<>> THEN 1 ELSE Head(s) * Prod(Tail(s))

\* ------------------------------------------------------------ polynomials
RECURSIVE PolyNorm(_)
PolyNorm(p) ==
    IF p = <<>> THEN <<>>
    ELSE IF p[Len(p)] = 0 THEN PolyNorm(SubSeq(p, 1, Len(p) - 1)) ELSE p

PolyCoef(p, i) == IF i >= 1 /\ i <= Len(p) THEN p[i] ELSE 0

PolyMul(p, q) ==
    IF p = <<>> \/ q = <<>> THEN <<>>
    ELSE PolyNorm([k \in 1..(Len(p) + Len(q) - 1) |->
             SumSeq([i \in 1..Len(p) |-> p[i] * PolyCoef(q, k - i + 1)])])

\* num1/den1 = num2/den2 as rational functions of eps
RatEq(num1, den1, num2, den2) == PolyMul(num1, den2) = PolyMul(num2, den1)

IsZeroPoly(p) == PolyNorm(p) = <<>>

\* ------------------------------------------------------------------ arrays
Arr(nd, sh, fl) == [ndim |-> nd, shape |-> sh, flat |-> fl]

Vec(s) == Arr(1, <<Len(s)>>, s)

\* a[i] on the first axis, i counted from 1 (the code's i + 1)
Item(a, i) ==
    LET stride == Prod(Tail(a.shape))
    IN Arr(a.ndim - 1, Tail(a.shape),
           SubSeq(a.flat, (i - 1) * stride + 1, i * stride))

\* a[:k] on the first axis
Prefix(a, k) ==
    LET stride == Prod(Tail(a.shape))
        kk == Min(k, a.shape[1])
    IN Arr(a.ndim, <<kk>> \o Tail(a.shape), SubSeq(a.flat, 1, kk * stride))

\* a[np.newaxis, :]
NewAxis(a) == Arr(a.ndim + 1, <<1>> \o a.shape, a.flat)

\* An example handed to a metric function, seen as a matrix of MRows x MCols
\* (a 0-d value is 1 x 1, a 1-d value of n samples is 1 x n): numpy aligns
\* shapes on the last axis and pads with leading 1s.
MRows(a) == IF a.ndim = 2 THEN a.shape[1] ELSE 1
MCols(a) == IF a.ndim = 0 THEN 1 ELSE a.shape[a.ndim]
MAt(a, r, j) == a.flat[(r - 1) * MCols(a) + j]

\* numpy's broadcasting rule on one axis, and the resulting extent
Broadcastable(n, m) == n = m \/ n = 1 \/ m = 1
BWidth(n, m) == IF n = 1 THEN m ELSE n

Raise(e, v) == [raised |-> TRUE, exc |-> e, value |-> v]
Return(v) == [raised |-> FALSE, exc |-> "", value |-> v]

\* 10 * np.log10(num / den), den > 0
Log10Ratio(num, den) ==
    [kind |-> IF IsZeroPoly(num) THEN "neg_inf" ELSE "finite",
     num |-> num, den |-> den]

NoDb == [kind |-> "none", num |-> <<>>, den |-> <<>>]

\* ----------------------------------------------------------- calculate_snr
\* noise = clean - enhanced, flattened (clean is 1-d)
snr_noise(clean, enhanced) ==
    LET n == MCols(clean)
        m == MCols(enhanced)
        w == BWidth(n, m)
        R == MRows(enhanced)
    IN [x \in 1..(R * w) |->
          LET r == ((x - 1) \div w) + 1
              j == ((x - 1) % w) + 1
          IN clean.flat[IF n = 1 THEN 1 ELSE j]
             - MAt(enhanced, r, IF m = 1 THEN 1 ELSE j)]

snr_clean_power(clean) == SumSq(clean.flat)

\* Line 59 without its "+ 1e-8": C6 does not hold of it
snr_noise_power_no_eps(clean, enhanced) == <<SumSq(snr_noise(clean, enhanced)), 0>>

snr_noise_power(clean, enhanced) == <<SumSq(snr_noise(clean, enhanced)), 1>>

calculate_snr(clean, enhanced) ==
    IF ~Broadcastable(MCols(clean), MCols(enhanced))
    THEN Raise("ValueError", NoDb)
    ELSE Return(Log10Ratio(<<snr_clean_power(clean)>>,
                           snr_noise_power(clean, enhanced)))

\* -------------------------------------------------------- calculate_si_sdr
\* The intermediate quantities of lines 148-160 for a 1-d clean and a 1-d or
\* 2-d enhanced, after the truncation to min_len.  Means make the values
\* rationals, so each zero-meaned array is kept as integer numerators over a
\* common denominator: clean - mean(clean) = cN / kc and
\* enhanced - mean(enhanced) = EN / ke (kc, ke: the element counts; an empty
\* array has no element to subtract from, and the count is then taken as 1).
\* With Q = PN + kc^2 * eps:
\*     sum(clean * enhanced)   = DN / (kc * ke)
\*     sum(clean ** 2)         = PN / kc^2
\*     s_target[j]             = DN * cN[j] / (ke * Q)
\*     e_noise[r][j]           = (A[r][j] + B[r][j] * eps) / (ke * Q)
\*     sum(s_target ** 2)      = DN^2 * PN / (ke * Q)^2
\*     sum(e_noise ** 2)       = (sumA2 + 2*sumAB*eps + sumB2*eps^2) / (ke * Q)^2
si_sdr_parts(clean, enhanced) ==
    LET min_len == Min(clean.shape[1], enhanced.shape[1])
        c == Prefix(clean, min_len)
        e == Prefix(enhanced, min_len)
        k == MCols(c)
        m == MCols(e)
        R == MRows(e)
        w == BWidth(k, m)
        kc == IF k = 0 THEN 1 ELSE k
        ke == IF Len(e.flat) = 0 THEN 1 ELSE Len(e.flat)
        cN == [j \in 1..k |-> kc * c.flat[j] - SumSeq(c.flat)]
        EN == [x \in 1..Len(e.flat) |-> ke * e.flat[x] - SumSeq(e.flat)]
        CAt(x) == cN[IF k = 1 THEN 1 ELSE ((x - 1) % w) + 1]
        EAt(x) == EN[((x - 1) \div w) * m
                     + (IF m = 1 THEN 1 ELSE ((x - 1) % w) + 1)]
        DN == SumSeq([x \in 1..(R * w) |-> CAt(x) * EAt(x)])
        PN == SumSq(cN)
        A == [x \in 1..(R * w) |-> EAt(x) * PN - DN * CAt(x)]
        B == [x \in 1..(R * w) |-> EAt(x) * kc * kc]
    IN [min_len |-> min_len, kc |-> kc, ke |-> ke, DN |-> DN, PN |-> PN,
        sumA2 |-> SumSq(A),
        sumAB |-> SumSeq([x \in 1..(R * w) |-> A[x] * B[x]]),
        sumB2 |-> SumSq(B)]

\* np.sum(s_target ** 2) and np.sum(e_noise ** 2) + 1e-8, both times (ke * Q)^2
si_sdr_target_energy(p) == <<p.DN * p.DN * p.PN>>

\* Line 160 with e_noise taken as zero: C7 does not hold of it
si_sdr_noise_denominator_eps_only(p) ==
    <<0,
      p.ke * p.ke * p.PN * p.PN,
      2 * p.ke * p.ke * p.PN * p.kc * p.kc,
      p.ke * p.ke * p.kc * p.kc * p.kc * p.kc>>

si_sdr_noise_denominator(p) ==
    <<p.sumA2,
      2 * p.sumAB + p.ke * p.ke * p.PN * p.PN,
      p.sumB2 + 2 * p.ke * p.ke * p.PN * p.kc * p.kc,
      p.ke * p.ke * p.kc * p.kc * p.kc * p.kc>>

\* line 160
si_sdr_value(p) ==
    Log10Ratio(si_sdr_target_energy(p), si_sdr_noise_denominator(p))

calculate_si_sdr(clean, enhanced) ==
    IF enhanced.ndim = 0
    THEN Raise("TypeError", NoDb)               \* len() of a 0-d value
    ELSE LET min_len == Min(clean.shape[1], enhanced.shape[1])
         IN IF enhanced.ndim = 2
               /\ ~Broadcastable(min_len, MCols(enhanced))
            THEN Raise("ValueError", NoDb)      \* clean * enhanced
            ELSE Return(si_sdr_value(si_sdr_parts(clean, enhanced)))

\* ------------------------------------------------------ module-level flags
\* The two globals a call reads and writes, with the number of times
\* warnings.warn has been called and what the trigger did in this call.
Globals(avail, shown, warns) ==
    [available |-> avail, shown |-> shown, warns |-> warns, last |-> "none"]

is_pesq_available(g) == g.available

\* Lines 32-43 without line 43, the flag never set: C3 does not hold of it
show_pesq_warning_every_time(g) ==
    [g EXCEPT !.warns = g.warns + 1, !.last = "emitted"]

show_pesq_warning(g) ==
    IF ~g.shown
    THEN [g EXCEPT !.shown = TRUE, !.warns = g.warns + 1, !.last = "emitted"]
    ELSE [g EXCEPT !.last = "suppressed"]

\* ------------------------------------------------------ delegated metrics
\* What the external scorer does with one call: raise, or return a score.
Failure == [ok |-> FALSE, score |-> 0]
Success(s) == [ok |-> TRUE, score |-> s]
PesqOutcomes == {Failure} \cup {Success(s) : s \in PesqScores}
StoiOutcomes == {Failure} \cup {Success(s) : s \in StoiScores}

None == [none |-> TRUE, score |-> 0]
Some(s) == [none |-> FALSE, score |-> s]

NoCall == <<>>
ScorerCall(sr, c, e, opt) ==
    <<[sample_rate |-> sr, clean |-> c, enhanced |-> e, option |-> opt]>>

\* calculate_pesq: [g: the globals after the call, value: None or the score,
\* calls: the calls made to the external scorer]
calculate_pesq(g, clean, enhanced, sample_rate, mode, outcome) ==
    IF ~g.available
    THEN [g |-> show_pesq_warning(g), value |-> None, calls |-> NoCall]
    ELSE IF enhanced.ndim = 0
         THEN [g |-> g, value |-> None, calls |-> NoCall]  \* len() raises, caught
         ELSE LET min_len == Min(clean.shape[1], enhanced.shape[1])
                  call == ScorerCall(sample_rate, Prefix(clean, min_len),
                                     Prefix(enhanced, min_len), mode)
              IN [g |-> g,
                  value |-> IF outcome.ok THEN Some(outcome.score) ELSE None,
                  calls |-> call]

\* calculate_stoi: [value: the score, 0 on any failure, calls]
calculate_stoi(clean, enhanced, sample_rate, extended, outcome) ==
    IF enhanced.ndim = 0
    THEN [value |-> 0, calls |-> NoCall]
    ELSE LET min_len == Min(clean.shape[1], enhanced.shape[1])
             call == ScorerCall(sample_rate, Prefix(clean, min_len),
                                Prefix(enhanced, min_len),
                                IF extended THEN "extended" ELSE "plain")
         IN [value |-> IF outcome.ok THEN outcome.score ELSE 0,
             calls |-> call]

\* ---------------------------------------------------------- evaluate_batch
Keys == {"snr", "si_sdr", "pesq", "stoi"}

\* np.mean of a list: the sum of its terms over their number.  A list of
\* scores is summed; a list of decibel values keeps its terms (each is the
\* logarithm of a ratio of polynomials in eps).
MeanDb(v) == [terms |-> v, n |-> Len(v)]
\* A mean over the non-zero terms only: C8 does not hold of it
MeanNumNonZero(v) ==
    [sum |-> SumSeq(v), n |-> Cardinality({i \in 1..Len(v) : v[i] # 0})]

MeanNum(v) == [sum |-> SumSeq(v), n |-> Len(v)]

\* Lines 190-192 left out: C4 does not hold of it
NormalizeNever(clean_batch, enhanced_batch) ==
    [clean |-> clean_batch, enhanced |-> enhanced_batch]

\* Lines 190-192 with the test "either is rank-1": C9 does not hold of it
NormalizeEither(clean_batch, enhanced_batch) ==
    IF clean_batch.ndim = 1 \/ enhanced_batch.ndim = 1
    THEN [clean |-> IF clean_batch.ndim = 1 THEN NewAxis(clean_batch) ELSE clean_batch,
          enhanced |-> IF enhanced_batch.ndim = 1 THEN NewAxis(enhanced_batch)
                       ELSE enhanced_batch]
    ELSE [clean |-> clean_batch, enhanced |-> enhanced_batch]

\* lines 190-192
Normalize(clean_batch, enhanced_batch) ==
    IF clean_batch.ndim = 1
    THEN [clean |-> NewAxis(clean_batch), enhanced |-> NewAxis(enhanced_batch)]
    ELSE [clean |-> clean_batch, enhanced |-> enhanced_batch]

\* line 202
ShouldComputePesq(g, compute_pesq) == compute_pesq /\ is_pesq_available(g)

\* lines 203-204
WarnIfUnavailable(g, compute_pesq) ==
    IF compute_pesq /\ ~is_pesq_available(g) THEN show_pesq_warning(g) ELSE g

\* lines 196-209: the keys of the metrics dictionary before the loop
MetricKeys(should_compute_pesq, compute_stoi) ==
    {"snr", "si_sdr"}
      \cup (IF should_compute_pesq THEN {"pesq"} ELSE {})
      \cup (IF compute_stoi THEN {"stoi"} ELSE {})

LoopStart(g) ==
    [raised |-> FALSE, exc |-> "", g |-> g, done |-> 0,
     snr |-> <<>>, si_sdr |-> <<>>, pesq |-> <<>>, stoi |-> <<>>,
     pesq_calls |-> <<>>, stoi_calls |-> <<>>]

EnvAt(env, i) == IF i <= Len(env) THEN env[i] ELSE Failure

\* Lines 220-221 without the test of line 220, None kept as 0: C2 does not
\* hold of it
AppendPesqAlways(st, r) ==
    [st EXCEPT !.g = r.g,
               !.pesq_calls = st.pesq_calls \o r.calls,
               !.pesq = Append(st.pesq, r.value.score)]

\* lines 220-221
AppendPesq(st, r) ==
    [st EXCEPT !.g = r.g,
               !.pesq_calls = st.pesq_calls \o r.calls,
               !.pesq = IF r.value.none THEN st.pesq
                        ELSE Append(st.pesq, r.value.score)]

\* lines 218-221
PesqStep(st, a, env, clean, enhanced, i) ==
    IF ~a.should_compute_pesq THEN st
    ELSE AppendPesq(st, calculate_pesq(st.g, clean, enhanced, a.sample_rate,
                                       "wb", EnvAt(env.pesq, i)))

\* Line 223 skipping a result of 0: C10 does not hold of it
AppendStoiNonZero(st, r) ==
    [st EXCEPT !.stoi_calls = st.stoi_calls \o r.calls,
               !.stoi = IF r.value = 0 THEN st.stoi ELSE Append(st.stoi, r.value)]

\* line 223
AppendStoi(st, r) ==
    [st EXCEPT !.stoi_calls = st.stoi_calls \o r.calls,
               !.stoi = Append(st.stoi, r.value)]

\* lines 222-223
StoiStep(st, a, env, clean, enhanced, i) ==
    IF ~a.compute_stoi THEN st
    ELSE AppendStoi(st, calculate_stoi(clean, enhanced, a.sample_rate, FALSE,
                                       EnvAt(env.stoi, i)))

\* lines 215-223 for one example x: clean_batch[i], enhanced_batch[i] and
\* what calculate_snr and calculate_si_sdr do with them
Accumulate(st, a, env, x, i) ==
    IF x.snr.raised
    THEN [st EXCEPT !.raised = TRUE, !.exc = x.snr.exc]
    ELSE IF x.si_sdr.raised
    THEN [st EXCEPT !.raised = TRUE, !.exc = x.si_sdr.exc,
                    !.snr = Append(st.snr, x.snr.value)]
    ELSE [StoiStep(PesqStep([st EXCEPT !.snr = Append(st.snr, x.snr.value),
                                       !.si_sdr = Append(st.si_sdr, x.si_sdr.value)],
                            a, env, x.clean, x.enhanced, i),
                   a, env, x.clean, x.enhanced, i)
          EXCEPT !.done = i]

\* lines 212-216 on one pair
Example(clean, enhanced) ==
    [clean |-> clean, enhanced |-> enhanced,
     snr |-> calculate_snr(clean, enhanced),
     si_sdr |-> calculate_si_sdr(clean, enhanced)]

\* The examples the loop can index.  calculate_snr and calculate_si_sdr read
\* nothing but their arguments, so what they do with example i is the same
\* whenever the loop reaches it.
Examples(norm) ==
    [i \in 1..Min(norm.clean.shape[1], norm.enhanced.shape[1]) |->
        Example(Item(norm.clean, i), Item(norm.enhanced, i))]

\* lines 212-223: one pass of the loop body, for the example at index i - 1
LoopBody(st, a, env, i) ==
    IF i > a.enhanced.shape[1]
    THEN [st EXCEPT !.raised = TRUE, !.exc = "IndexError"]
    ELSE Accumulate(st, a, env, a.examples[i], i)

\* line 211
RECURSIVE Loop(_, _, _, _)
Loop(st, a, env, i) ==
    IF st.raised \/ i > a.batch_size THEN st
    ELSE Loop(LoopBody(st, a, env, i), a, env, i + 1)

\* Line 226 without its "if len(v) > 0": C1 does not hold of it
AverageKeysUnfiltered(metric_keys, st) == metric_keys

\* line 226: the keys whose list is not empty
AverageKeys(metric_keys, st) ==
    {k \in metric_keys :
        \/ k = "snr" /\ Len(st.snr) > 0
        \/ k = "si_sdr" /\ Len(st.si_sdr) > 0
        \/ k = "pesq" /\ Len(st.pesq) > 0
        \/ k = "stoi" /\ Len(st.stoi) > 0}

\* What the external scorers answer, call after call
Envs(pesq_env, stoi_env) == [pesq |-> pesq_env, stoi |-> stoi_env]

\* lines 194-209: what the loop reads
LoopArgs(g, norm, sample_rate, compute_pesq, compute_stoi) ==
    [clean |-> norm.clean, enhanced |-> norm.enhanced,
     examples |-> Examples(norm),
     batch_size |-> norm.clean.shape[1], sample_rate |-> sample_rate,
     should_compute_pesq |-> ShouldComputePesq(g, compute_pesq),
     compute_stoi |-> compute_stoi,
     metric_keys |-> MetricKeys(ShouldComputePesq(g, compute_pesq), compute_stoi)]

\* lines 226-228, or the exception the loop raised.  The result records the
\* returned mapping (keys, with avg[k] the value of key k) and what the call
\* went through: the normalized arrays, the metrics dictionary at the end of
\* the loop, the calls to the external scorers, the globals after the call.
Reduce(st, a) ==
    [raised |-> st.raised, exc |-> st.exc, g |-> st.g,
     norm |-> [clean |-> a.clean, enhanced |-> a.enhanced],
     batch_size |-> a.batch_size,
     should_compute_pesq |-> a.should_compute_pesq,
     metric_keys |-> a.metric_keys,
     metrics |-> [snr |-> st.snr, si_sdr |-> st.si_sdr,
                  pesq |-> st.pesq, stoi |-> st.stoi],
     done |-> st.done,
     pesq_calls |-> st.pesq_calls, stoi_calls |-> st.stoi_calls,
     keys |-> IF st.raised THEN {} ELSE AverageKeys(a.metric_keys, st),
     avg |-> [snr |-> MeanDb(st.snr), si_sdr |-> MeanDb(st.si_sdr),
              pesq |-> MeanNum(st.pesq), stoi |-> MeanNum(st.stoi)]]

\* lines 194-228 on the normalized arrays
EvaluateNormalized(g1, a, env) == Reduce(Loop(LoopStart(g1), a, env, 1), a)

\* evaluate_batch on numpy arrays (a torch tensor is converted value for
\* value, lines 185-188)
evaluate_batch(g, clean_batch, enhanced_batch, sample_rate, compute_pesq, compute_stoi, pesq_env, stoi_env) ==
    EvaluateNormalized(WarnIfUnavailable(g, compute_pesq),
                       LoopArgs(g, Normalize(clean_batch, enhanced_batch),
                                sample_rate, compute_pesq, compute_stoi),
                       Envs(pesq_env, stoi_env))

\* ------------------------------------------------------------ the program
VARIABLES
    PESQ_AVAILABLE,        \* _PESQ_AVAILABLE, set once by the import at load
    PESQ_WARNING_SHOWN,    \* _PESQ_WARNING_SHOWN
    warn_calls,            \* how many times warnings.warn has been called
    trigger,               \* what _show_pesq_warning did in the last call
    call,                  \* the last call: the function and its arguments
    ret                    \* what the last call returned or raised

vars == <<PESQ_AVAILABLE, PESQ_WARNING_SHOWN, warn_calls, trigger, call, ret>>

\* ------------------------------------------------------------- the inputs
Signals == UNION {[1..n -> Samples] : n \in 0..MaxLen}

\* The rows of a batch: silence, and a unit impulse on the first sample.
Silence(n) == [j \in 1..n |-> 0]
Impulse(n) == [j \in 1..n |-> IF j = 1 THEN 1 ELSE 0]
BatchSignals(n) == {Silence(n), Impulse(n)}

Matrix(rows, B, n) ==
    Arr(2, <<B, n>>,
        [x \in 1..(B * n) |-> rows[((x - 1) \div n) + 1][((x - 1) % n) + 1]])

Arrays1 == {Vec(s) : s \in UNION {BatchSignals(n) : n \in 0..MaxLen}}
Arrays2 ==
    UNION {UNION {{Matrix(rows, B, n) : rows \in [1..B -> BatchSignals(n)]}
                  : n \in 0..MaxLen}
           : B \in 0..MaxBatch}
BatchArrays == Arrays1 \cup Arrays2

NoArray == Arr(1, <<0>>, <<>>)

Call(op, c, e, sr, opt, cp, cs, penv, senv) ==
    [op |-> op, clean |-> c, enhanced |-> e, sample_rate |-> sr, option |-> opt,
     compute_pesq |-> cp, compute_stoi |-> cs, pesq_env |-> penv, stoi_env |-> senv]

CurrentGlobals == Globals(PESQ_AVAILABLE, PESQ_WARNING_SHOWN, warn_calls)

SetGlobals(g) ==
    /\ PESQ_AVAILABLE' = g.available
    /\ PESQ_WARNING_SHOWN' = g.shown
    /\ warn_calls' = g.warns
    /\ trigger' = g.last

\* Between two calls: the module is loaded and no result is held.
IdleCall == Call("idle", NoArray, NoArray, 16000, "", FALSE, FALSE, <<>>, <<>>)

\* No call has returned or raised: what `ret` holds between two calls
NoResult == [raised |-> FALSE, exc |-> "no call", value |-> [kind |-> "none"]]

\* lines 13-21: the import succeeds or raises ImportError
Init ==
    /\ PESQ_AVAILABLE \in BOOLEAN
    /\ PESQ_WARNING_SHOWN = FALSE
    /\ warn_calls = 0
    /\ trigger = "none"
    /\ call = IdleCall
    /\ ret = NoResult

\* The caller is between two calls: the module is loaded, or the last result
\* has been dropped.  Only the globals carry over from one call to the next.
Idle == call.op = "idle"

DropResult ==
    /\ ~Idle
    /\ call' = IdleCall
    /\ ret' = NoResult
    /\ trigger' = "none"
    /\ UNCHANGED <<PESQ_AVAILABLE, PESQ_WARNING_SHOWN, warn_calls>>

CallIsPesqAvailable ==
    /\ Idle
    /\ call' = Call("is_pesq_available", NoArray, NoArray, 16000, "", FALSE, FALSE, <<>>, <<>>)
    /\ ret' = Return([kind |-> "bool", truth |-> is_pesq_available(CurrentGlobals)])
    /\ SetGlobals(CurrentGlobals)

CallCalculateSnr ==
    /\ Idle
    /\ \E c \in Signals, e \in Signals :
        /\ call' = Call("calculate_snr", Vec(c), Vec(e), 16000, "", FALSE, FALSE, <<>>, <<>>)
        /\ ret' = calculate_snr(Vec(c), Vec(e))
        /\ SetGlobals(CurrentGlobals)

CallCalculateSiSdr ==
    /\ Idle
    /\ \E c \in Signals, e \in Signals :
        /\ call' = Call("calculate_si_sdr", Vec(c), Vec(e), 16000, "", FALSE, FALSE, <<>>, <<>>)
        /\ ret' = calculate_si_sdr(Vec(c), Vec(e))
        /\ SetGlobals(CurrentGlobals)

\* The state after a call that returned or raised r, leaving the globals g
Returned(c, r, g) ==
    /\ call' = c
    /\ ret' = r
    /\ SetGlobals(g)

PesqReturned(c, r) ==
    Returned(c, [raised |-> FALSE, exc |-> "", value |-> r.value, calls |-> r.calls], r.g)

CallCalculatePesq ==
    /\ Idle
    /\ \E c \in Arrays1, e \in Arrays1, sr \in SampleRates, mode \in Modes :
         \E outcome \in (IF PESQ_AVAILABLE THEN PesqOutcomes ELSE {Failure}) :
           PesqReturned(Call("calculate_pesq", c, e, sr, mode, FALSE, FALSE, <<outcome>>, <<>>),
                        calculate_pesq(CurrentGlobals, c, e, sr, mode, outcome))

StoiReturned(c, r) ==
    Returned(c, [raised |-> FALSE, exc |-> "", value |-> r.value, calls |-> r.calls],
             CurrentGlobals)

CallCalculateStoi ==
    /\ Idle
    /\ \E c \in Arrays1, e \in Arrays1, sr \in SampleRates, extended \in BOOLEAN :
         \E outcome \in StoiOutcomes :
           StoiReturned(Call("calculate_stoi", c, e, sr,
                             IF extended THEN "extended" ELSE "plain",
                             FALSE, FALSE, <<>>, <<outcome>>),
                        calculate_stoi(c, e, sr, extended, outcome))

\* The external scorers are called once per example the loop completes: the
\* outcomes of those calls are the environment's choice.
PesqEnvs(dry) ==
    [1..(IF dry.should_compute_pesq THEN dry.done ELSE 0) -> PesqOutcomes]
StoiEnvs(dry, compute_stoi) ==
    [1..(IF compute_stoi THEN dry.done ELSE 0) -> StoiOutcomes]

BatchReturned(c, r) == Returned(c, r, r.g)

\* The call with its arguments chosen: g1 and a are what lines 185-209 make of
\* them, dry the loop without the scorers' answers.
EvaluateBatchWith(c, g1, a, dry) ==
    \E penv \in PesqEnvs(dry), senv \in StoiEnvs(dry, a.compute_stoi) :
        BatchReturned([c EXCEPT !.pesq_env = penv, !.stoi_env = senv],
                      EvaluateNormalized(g1, a, Envs(penv, senv)))

EvaluateBatchArgs(c, g1, a) ==
    EvaluateBatchWith(c, g1, a, EvaluateNormalized(g1, a, Envs(<<>>, <<>>)))

CallEvaluateBatch ==
    /\ Idle
    /\ \E cb \in BatchArrays, eb \in BatchArrays, sr \in SampleRates,
          cp \in BOOLEAN, cs \in BOOLEAN :
         EvaluateBatchArgs(Call("evaluate_batch", cb, eb, sr, "", cp, cs, <<>>, <<>>),
                           WarnIfUnavailable(CurrentGlobals, cp),
                           LoopArgs(CurrentGlobals, Normalize(cb, eb), sr, cp, cs))

Next ==
    \/ CallIsPesqAvailable
    \/ CallCalculateSnr
    \/ CallCalculateSiSdr
    \/ CallCalculatePesq
    \/ CallCalculateStoi
    \/ CallEvaluateBatch
    \/ DropResult

Spec == Init /\ [][Next]_vars

\* ================================================================ claims
IsBatchCall == call.op = "evaluate_batch"

\* The globals as a claim's reference call finds them (the flag and the
\* counter do not change what a call returns).
RefGlobals == Globals(PESQ_AVAILABLE, FALSE, 0)

\* What the caller of evaluate_batch sees: the exception, or the mapping.
Outcome(r) == [raised |-> r.raised, exc |-> r.exc, keys |-> r.keys,
               avg |-> [k \in r.keys |-> r.avg[k]]]

\* clean_batch and enhanced_batch have the same rank and shape
SameShape == call.clean.ndim = call.enhanced.ndim /\ call.clean.shape = call.enhanced.shape

Successes(env) == {i \in 1..Len(env) : env[i].ok}

\* ------------------------------------------------------------------- C1
\* C1 as stated: with the PESQ flag false, evaluate_batch(compute_pesq=True)
\* on any batch (clean and enhanced of one shape) does not raise and returns
\* a mapping without 'pesq' that contains 'snr' and 'si_sdr'.
C1_Original ==
    (IsBatchCall /\ ~PESQ_AVAILABLE /\ call.compute_pesq /\ SameShape)
        => /\ ~ret.raised
           /\ "pesq" \notin ret.keys
           /\ {"snr", "si_sdr"} \subseteq ret.keys

\* C1 amended: with the PESQ flag false, evaluate_batch(compute_pesq=True)
\* raises or returns exactly as the same call with compute_pesq=False does
\* (the missing scorer adds no exception and changes no value); a returned
\* mapping has no 'pesq' key, and it contains 'snr' and 'si_sdr' exactly when
\* the batch has at least one example (an empty batch returns the empty
\* mapping).
C1_GracefulDegradation ==
    (IsBatchCall /\ ~PESQ_AVAILABLE /\ call.compute_pesq)
        => /\ Outcome(ret)
                = Outcome(evaluate_batch(RefGlobals, call.clean, call.enhanced,
                                         call.sample_rate, FALSE, call.compute_stoi,
                                         <<>>, call.stoi_env))
           /\ ~ret.raised =>
                /\ "pesq" \notin ret.keys
                /\ ret.pesq_calls = <<>>
                /\ ({"snr", "si_sdr"} \subseteq ret.keys) <=> (ret.batch_size > 0)
                /\ (ret.batch_size = 0) => (ret.keys = {})

C1_Witness ==
    /\ IsBatchCall /\ ~PESQ_AVAILABLE /\ call.compute_pesq /\ call.compute_stoi
    /\ ~ret.raised /\ ret.batch_size = 2
    /\ ret.keys = {"snr", "si_sdr", "stoi"}

\* ------------------------------------------------------------------- C2
\* C2: with PESQ requested and available, the returned mapping has the
\* 'pesq' key if and only if the scorer returned a score for at least one
\* example of the batch.
C2_PesqKeyIffSomeScore ==
    (IsBatchCall /\ PESQ_AVAILABLE /\ call.compute_pesq /\ ~ret.raised)
        => /\ Len(call.pesq_env) = ret.batch_size
           /\ Len(ret.pesq_calls) = ret.batch_size
           /\ ("pesq" \in ret.keys) <=> (Successes(call.pesq_env) # {})

C2_Witness ==
    /\ IsBatchCall /\ PESQ_AVAILABLE /\ call.compute_pesq /\ ~ret.raised
    /\ ret.batch_size = 2
    /\ Successes(call.pesq_env) = {}
    /\ "pesq" \notin ret.keys

\* ------------------------------------------------------------------- C3
\* C3: over any sequence of calls warnings.warn is called at most once; the
\* call that fires it finds the flag false and sets it, the flag is never
\* reset, and once it is set no call fires the warning again.
C3_WarningAtMostOnce ==
    /\ [](warn_calls <= 1)
    /\ [][/\ PESQ_WARNING_SHOWN => (PESQ_WARNING_SHOWN' /\ warn_calls' = warn_calls)
          /\ (warn_calls' # warn_calls)
                => (~PESQ_WARNING_SHOWN /\ PESQ_WARNING_SHOWN'
                    /\ warn_calls' = warn_calls + 1 /\ trigger' = "emitted")]_vars

C3_Witness ==
    /\ trigger = "suppressed"
    /\ PESQ_WARNING_SHOWN
    /\ warn_calls = 1
    /\ call.op \in {"calculate_pesq", "evaluate_batch"}

\* ------------------------------------------------------------------- C4
\* C4: evaluate_batch on a 1-D pair returns (or raises) what evaluate_batch
\* returns on the same pair wrapped as a batch of size 1, for the same
\* sample_rate, switches and scorer answers.
C4_SingleEqualsBatchOfOne ==
    (IsBatchCall /\ call.clean.ndim = 1 /\ call.enhanced.ndim = 1)
        => Outcome(ret)
             = Outcome(evaluate_batch(RefGlobals, NewAxis(call.clean),
                                      NewAxis(call.enhanced), call.sample_rate,
                                      call.compute_pesq, call.compute_stoi,
                                      call.pesq_env, call.stoi_env))

C4_Witness ==
    /\ IsBatchCall /\ call.clean.ndim = 1 /\ call.enhanced.ndim = 1
    /\ call.clean.shape = <<3>> /\ call.enhanced.shape = <<3>>
    /\ call.sample_rate = 8000
    /\ ~ret.raised
    /\ ret.keys = Keys

\* ------------------------------------------------------------------- C5
\* C5 as stated: a difference in length between clean[i] and enhanced[i] is
\* never an error: evaluate_batch on a batch whose clean and enhanced
\* signals (of two samples or more) differ in length returns a mapping.
C5_Claim ==
    (/\ IsBatchCall
     /\ call.clean.ndim = 2 /\ call.enhanced.ndim = 2
     /\ call.clean.shape[1] = call.enhanced.shape[1]
     /\ call.clean.shape[1] >= 1
     /\ call.clean.shape[2] >= 2 /\ call.enhanced.shape[2] >= 2
     /\ call.clean.shape[2] # call.enhanced.shape[2])
        => ~ret.raised

\* ------------------------------------------------------------------- C6
IsSnrCall == call.op = "calculate_snr"
SameLength == call.clean.shape = call.enhanced.shape
AllZero(x) == \A j \in 1..Len(x.flat) : x.flat[j] = 0

\* c0 + c1*eps > 0 for every eps > 0
PositivePoly(p) == (\A j \in 1..Len(p) : p[j] >= 0) /\ ~IsZeroPoly(p)

\* C6 as stated: calculate_snr returns a finite number for every pair of
\* same-length inputs (of one sample or more), clean all zeros included.
C6_Original ==
    (IsSnrCall /\ SameLength /\ call.clean.shape[1] >= 1)
        => (~ret.raised /\ ret.value.kind = "finite")

\* C6 amended: on same-length inputs calculate_snr raises nothing and its
\* denominator noise_power is sum(noise^2) + eps, strictly positive, so the
\* ratio clean_power / noise_power is finite and never negative; it is
\* strictly positive, and the result finite, exactly when clean has a
\* non-zero sample.  When clean is all zeros the ratio is 0 and the function
\* returns -inf.
C6_SnrFiniteIffCleanNonZero ==
    (IsSnrCall /\ SameLength)
        => /\ ~ret.raised
           /\ PositivePoly(ret.value.den)
           /\ ret.value.den[2] = 1
           /\ ret.value.num = <<SumSq(call.clean.flat)>>
           /\ (ret.value.kind = "finite") <=> ~AllZero(call.clean)
           /\ AllZero(call.clean) => (ret.value.kind = "neg_inf")

C6_Witness ==
    /\ IsSnrCall /\ SameLength
    /\ call.clean.shape = <<3>>
    /\ AllZero(call.clean) /\ ~AllZero(call.enhanced)
    /\ ret.value.kind = "neg_inf"

\* ------------------------------------------------------------------- C7
IsSiSdrCall == call.op = "calculate_si_sdr"
Identical == call.clean = call.enhanced
CallParts == si_sdr_parts(call.clean, call.enhanced)

\* sum(e_noise ** 2) = 0: the noise denominator is eps and nothing more
NoiseEnergyZero(p) == p.sumA2 = 0 /\ p.sumAB = 0 /\ p.sumB2 = 0

RECURSIVE ScoreSum(_)
ScoreSum(env) ==
    IF env = <<>> THEN 0
    ELSE (IF Head(env).ok THEN Head(env).score ELSE 0) + ScoreSum(Tail(env))

\* C8: the reported 'pesq' value is the sum of the scores of the examples
\* whose PESQ call succeeded over the number of those examples; the reported
\* 'stoi' value is the sum of all per-example results, a failed call counting
\* 0, over the batch size.
C8_DifferentCounts ==
    (IsBatchCall /\ ~ret.raised)
        => /\ ("pesq" \in ret.keys)
                => /\ ret.avg.pesq.sum = ScoreSum(call.pesq_env)
                   /\ ret.avg.pesq.n = Cardinality(Successes(call.pesq_env))
           /\ ("stoi" \in ret.keys)
                => /\ ret.avg.stoi.sum = ScoreSum(call.stoi_env)
                   /\ ret.avg.stoi.n = ret.batch_size
                   /\ Len(call.stoi_env) = ret.batch_size

C8_Witness ==
    /\ IsBatchCall /\ ~ret.raised /\ ret.batch_size = 2
    /\ ret.keys = Keys
    /\ Cardinality(Successes(call.pesq_env)) = 1
    /\ Cardinality(Successes(call.stoi_env)) = 1
    /\ ret.avg.pesq.n = 1 /\ ret.avg.stoi.n = 2

\* ------------------------------------------------------------------- C9
Wrapped == /\ ret.norm.clean = NewAxis(call.clean)
           /\ ret.norm.enhanced = NewAxis(call.enhanced)
Unchanged == /\ ret.norm.clean = call.clean
             /\ ret.norm.enhanced = call.enhanced

\* C9 as stated: if either input (an array of one sample or more) is rank-1
\* both are wrapped in a batch dimension of size 1; if neither is, neither is
\* changed.
C9_Original ==
    (IsBatchCall /\ call.clean.flat # <<>> /\ call.enhanced.flat # <<>>)
        => IF call.clean.ndim = 1 \/ call.enhanced.ndim = 1
           THEN Wrapped ELSE Unchanged

\* C9 amended: if clean_batch is rank-1 both inputs are wrapped in a batch
\* dimension of size 1, whatever the rank of enhanced_batch; otherwise neither
\* is changed.  In particular a rank-1 enhanced_batch given with a rank-2
\* clean_batch is not wrapped, and the call then raises as soon as the batch
\* has an example.
C9_WrapOnCleanRank ==
    IsBatchCall
        => /\ IF call.clean.ndim = 1 THEN Wrapped /\ ret.batch_size = 1
              ELSE Unchanged /\ ret.batch_size = call.clean.shape[1]
           /\ (call.clean.ndim = 2 /\ call.enhanced.ndim = 1 /\ ret.batch_size >= 1)
                => (ret.raised /\ ret.exc \in {"IndexError", "TypeError"})

C9_Witness ==
    /\ IsBatchCall
    /\ call.clean.ndim = 2 /\ call.enhanced.ndim = 1
    /\ call.clean.shape = <<2, 3>> /\ call.enhanced.shape = <<3>>
    /\ Unchanged /\ ret.raised

\* ------------------------------------------------------------------ C10
Omitted == ret.metric_keys \ ret.keys

\* C10 as stated: at the reduce step the 'snr' and 'si_sdr' lists (and 'stoi'
\* when requested) hold one value per example and are never empty; 'pesq' is
\* the only requested metric that can be omitted from the result, for every
\* accepted batch (clean and enhanced of one shape).
C10_Original ==
    (IsBatchCall /\ ~ret.raised /\ SameShape)
        => /\ Len(ret.metrics.snr) = ret.batch_size /\ Len(ret.metrics.snr) > 0
           /\ Len(ret.metrics.si_sdr) = ret.batch_size /\ Len(ret.metrics.si_sdr) > 0
           /\ call.compute_stoi
                => (Len(ret.metrics.stoi) = ret.batch_size /\ Len(ret.metrics.stoi) > 0)
           /\ Omitted \subseteq {"pesq"}

\* C10 amended: at the reduce step the 'snr' and 'si_sdr' lists (and 'stoi'
\* when requested) hold one value per example; they are empty only for a
\* batch of no example, for which every list is empty and the result is the
\* empty mapping.  For a batch of one example or more, 'pesq' is the only
\* requested metric that can be omitted from the result.
C10_OneValuePerExample ==
    (IsBatchCall /\ ~ret.raised)
        => /\ Len(ret.metrics.snr) = ret.batch_size
           /\ Len(ret.metrics.si_sdr) = ret.batch_size
           /\ call.compute_stoi => (Len(ret.metrics.stoi) = ret.batch_size)
           /\ Len(ret.metrics.pesq) <= ret.batch_size
           /\ (ret.batch_size >= 1) => (Omitted \subseteq {"pesq"})
           /\ (ret.batch_size = 0) => (ret.keys = {})

C10_Witness ==
    /\ IsBatchCall /\ ~ret.raised /\ ret.batch_size = 2
    /\ call.compute_stoi /\ call.compute_pesq /\ PESQ_AVAILABLE
    /\ Omitted = {"pesq"}
    /\ Len(ret.metrics.stoi) = 2

====
